---- MODULE Spec2Model ----
(***************************************************************************)
(* Model of the Event Hubs python client: the proton based EventHubClient  *)
(* with its SenderHandler / DeliveryTracker send path (eventhubs/_impl.py, *)
(* eventhubs/__init__.py) and the AsyncReceiver credit accounting          *)
(* (eventhubs/async/__init__.py).                                          *)
(*                                                                         *)
(* Reactor callbacks run on the single reactor thread, so each callback is *)
(* one atomic action.  API calls made by application threads (publish,     *)
(* send, transfer, stop, receive) are separate actions.                    *)
(***************************************************************************)
EXTENDS Integers, Sequences, FiniteSets, TLC

\* ------------------------------------------------------------------ bounds
MaxHandlers == 2      \* handlers that may be registered with the client
MaxSends == 2         \* DeliveryEvents created over a run
MaxCredit == 1        \* largest link credit the broker grants at a time
MaxRemoteCloses == 1  \* links the broker closes over a run
TickStep == 60        \* seconds of clock advance per Tick
MaxStops == 2         \* EventHubClient.stop calls over a run

MaxMessages == 6      \* events the broker delivers to the receiver over a run
SmallPrefetch == 2    \* a prefetch smaller than the flow watermark
MaxRestarts == 1      \* receiver link restarts over a run

\* ------------------------------------------------------- program constants
TIMEOUT == 60         \* SenderHandler.TIMEOUT
DefaultPrefetch == 300 \* AsyncReceiver.__init__(prefetch=300)
Watermark == 100      \* AsyncReceiver._check_flow: self.delivered >= 100

None == "None"
ACCEPTED == "ACCEPTED"
REJECTED == "REJECTED"
RELEASED == "RELEASED"
EventHubError == "EventHubError"

VARIABLES
    \* ---- EventHubClient
    stopped,        \* EventHubClient.stopped
    connection,     \* EventHubClient.connection: "None", "open" or "closed"
    clients,        \* EventHubClient.clients: sequence of handler objects
    daemon,         \* EventHubClient.daemon is not None (run_daemon was used)
    reactor,        \* "init", "running" or "final": the proton reactor
    stopEvent,      \* an InjectorEvent.STOP_CLIENT is waiting in the injector
    triggered,      \* handlers with an InjectorEvent.SEND waiting in the injector
    \* ---- ClientHandler / SenderHandler / ReceiverHandler
    handlers,       \* per handler: link, credit, iteration, queue, deliveries,
                    \* unsettled, task (DeliveryTracker.task), timers
    \* ---- DeliveryEvents and the Sender entity
    events,         \* every SenderHandler.DeliveryEvent created so far
    s_handler,      \* Sender._handler: 0 for None, else index into clients
    s_event,        \* Sender._event is set
    s_outcome,      \* Sender._outcome
    s_condition,    \* Sender._condition
    \* ---- application threads
    callerPc,       \* per thread: "idle" or "waiting" (inside Sender.send)
    callerRec,      \* per thread: the DeliveryEvent of its current send
    lastResult,     \* per thread: how its last send ended
    stops,          \* number of EventHubClient.stop calls made
    closes,         \* number of links closed by the broker
    \* ---- AsyncReceiver and its consumer
    rcv,            \* the AsyncReceiver: prefetch, link, credit, delivered,
                    \* messages, waiter, closed, offset
    rcvHandler,     \* the ReceiverHandler: link, timer (restart task pending)
    linkCredit,     \* credit the receiver link holds at the broker
    rcvTimers,      \* reactor.schedule(0.1, receiver) tasks not yet fired
    rcvPc,          \* the consumer: "idle", "await" (inside receive)
    rcvCount,       \* the count argument of the current receive call
    rcvResult,      \* what the last receive call returned
    rcvCall,        \* the receive call in progress: whether it holds the
                    \* receiver's lock, its local size and its batch
    rcvReactor,     \* the reactor thread inside on_stop: "none", or its
                    \* position in the loop that empties the buffer
    aclient,        \* the EventHubClientAsync: stopped, connection, auth
    alinks,         \* its registered AsyncSender/AsyncReceiver clients
    runPc,          \* the position of run_async
    runResult,      \* what run_async returned or raised
    rcvGhost,       \* bookkeeping: last flow grant, arrivals and events
                    \* taken since the link start, restarts
    \* ---- EventHubPartitionPump
    pump,           \* the pump: pump_status, msg_queue, eh_client,
                    \* partition_receiver, partition_receive_handler
    opn,            \* the pump's thread inside on_open_async and
                    \* PartitionReceiver.run: position and locals
    queue,          \* the content of the Queue object msg_queue refers to
    pclient,        \* the pump's EventHubClient: state, stop calls, and
                    \* the number of the next event the broker delivers
    closePc,        \* the host's thread inside PartitionPump.close_async
    pghost,         \* bookkeeping: errors reported to the processor,
                    \* events handed to it, open attempts, faults
    \* ---- Offset
    offset,         \* the Offset object: value, inclusive
    selected,       \* what its selector() returned, or <<>>
    \* ---- EventHubClient, reconnect
    clientTimers,   \* tasks scheduled by container.schedule(1.0, self) for
                    \* the client and not yet run
    lifeGhost       \* bookkeeping: close events of the peer so far, and
                    \* events and tasks handled after the client stopped

vars == <<stopped, connection, clients, daemon, reactor, stopEvent, triggered,
          handlers, events, s_handler, s_event, s_outcome, s_condition,
          callerPc, callerRec, lastResult, stops, closes,
          rcv, rcvHandler, linkCredit, rcvTimers, rcvPc, rcvCount, rcvResult,
          rcvCall, rcvReactor, rcvGhost, aclient, alinks, runPc, runResult,
          pump, opn, queue, pclient, closePc, pghost, offset, selected,
          clientTimers, lifeGhost>>

sendVars == <<stopped, connection, clients, daemon, reactor, stopEvent, triggered,
              handlers, events, s_handler, s_event, s_outcome, s_condition,
              callerPc, callerRec, lastResult, stops, closes>>
recvVars == <<rcv, rcvHandler, linkCredit, rcvTimers, rcvPc, rcvCount, rcvResult,
              rcvCall, rcvReactor, rcvGhost>>
runVars == <<aclient, alinks, runPc, runResult>>
pumpVars == <<pump, opn, queue, pclient, closePc, pghost>>
offVars == <<offset, selected>>
lifeVars == <<clientTimers, lifeGhost>>

Handlers == 1..MaxHandlers
Threads == {1}

\* the application threads that may call Sender.send on the one Sender;
\* only the first calls it where one caller is modelled
MaxThreads == 2
Callers == 1..MaxThreads

Min(a, b) == IF a < b THEN a ELSE b
Max(a, b) == IF a > b THEN a ELSE b
Range(s) == {s[i] : i \in DOMAIN s}

\* ------------------------------------------------------------ pure helpers

\* Sender._error: None (<<>>) on ACCEPTED, else EventHubError(outcome, condition)
Sender_error(outcome, condition) ==
    IF outcome = ACCEPTED THEN <<>> ELSE <<EventHubError, outcome, condition>>

\* Sender._check that never raises
Sender_check_never(h) == FALSE

\* Sender._check: TRUE when it raises EventHubError
Sender_check(h) == h = 0

\* EventHubClient._check_client: TRUE when it raises.  clients holds the
\* handler objects, the argument is the Sender / Receiver entity.
check_client(client, cl) == client \in Range(cl)

\* The entity objects and the handler objects the client stores
SenderObj == [class |-> "Sender", id |-> 0]
ReceiverObj == [class |-> "Receiver", id |-> 0]
NewHandler(class, n) == [class |-> class, id |-> n]

\* ClientHandler.__init__ / SenderHandler.__init__
InitHandler ==
    [link |-> None, credit |-> 0, iteration |-> 0, queue |-> <<>>,
     deliveries |-> {}, unsettled |-> {}, task |-> <<>>, timers |-> 0]

\* SenderHandler.DeliveryEvent.__init__ (start = now, so its age is 0)
DeliveryEvent(kind, h, state, t, isStopped) ==
    [kind |-> kind, handler |-> h, state |-> state, thread |-> t, age |-> 0,
     completions |-> 0, outcome |-> None,
     cbArg |-> <<>>, handed |-> FALSE, afterStop |-> isStopped]

\* DeliveryEvent.elapsed() >= SenderHandler.TIMEOUT
Expired(ev) == ev.age >= TIMEOUT

\* DeliveryEvent.complete: invokes callback(state, outcome, condition).
\* elapsed() of a completed event is never read again, so its age is
\* dropped.
complete(ev, outcome, condition) ==
    [ev EXCEPT !.completions = @ + 1,
               !.outcome = outcome,
               !.age = 0,
               !.cbArg = IF ev.kind = "transfer"
                         THEN <<ev.state, Sender_error(outcome, condition)>>
                         ELSE @]

CompleteAll(evs, S, outcome, condition) ==
    [r \in DOMAIN evs |->
        IF r \in S THEN complete(evs[r], outcome, condition) ELSE evs[r]]

\* Sender.on_outcome that stores ACCEPTED whatever the outcome is
on_outcome_accepted(outcome, condition) ==
    [outcome |-> ACCEPTED, condition |-> condition, event |-> TRUE]

\* Sender.on_outcome
on_outcome(outcome, condition) ==
    [outcome |-> outcome, condition |-> condition, event |-> TRUE]

\* The Sender's fields after the DeliveryEvents in S were completed
SenderAfter(evs, S, outcome, condition) ==
    IF \E r \in S : evs[r].kind = "send"
    THEN on_outcome(outcome, condition)
    ELSE [outcome |-> s_outcome, condition |-> s_condition, event |-> s_event]

\* DeliveryTracker.track / DeliveryTracker.stop
track(tk) == IF tk = <<>> THEN <<TIMEOUT>> ELSE tk
tracker_stop(tk) == <<>>

\* SenderHandler.on_sendable: the while loop, then track()
RECURSIVE on_sendable_loop(_)
on_sendable_loop(hd) ==
    IF hd.link # None /\ hd.credit > 0 /\ hd.queue # <<>>
    THEN on_sendable_loop(
            [hd EXCEPT !.queue = Tail(@),
                       !.credit = @ - 1,
                       !.deliveries = @ \cup {Head(hd.queue)},
                       !.unsettled = IF hd.link = "open"
                                     THEN @ \cup {Head(hd.queue)} ELSE @])
    ELSE hd

on_sendable(hd) ==
    LET h2 == on_sendable_loop(hd)
    IN  [h2 EXCEPT !.task = IF h2.deliveries # {} THEN track(@) ELSE @]

\* the DeliveryEvents a call of on_sendable handed to the link
MarkHanded(evs, before, after) ==
    [r \in DOMAIN evs |->
        IF r \in after.deliveries \ before.deliveries
        THEN [evs[r] EXCEPT !.handed = TRUE] ELSE evs[r]]

\* SenderHandler.on_link_closed: what is left in the deliveries map, and
\* the handler afterwards
ClosedDeliveries(dl) == {}
on_link_closed(hd) ==
    [hd EXCEPT !.deliveries = ClosedDeliveries(@), !.task = tracker_stop(@)]

\* SenderHandler.on_delivery: deliveries.pop(dlv, None)
PopDelivery(dl, r) == dl \ {r}

\* SenderHandler.check_timeout: the expired deliveries
ExpiredSet(evs, dl) == {r \in dl : Expired(evs[r])}

\* check_timeout that leaves the expired deliveries in the map
PopExpired_keep(dl, expired) == dl

\* SenderHandler.check_timeout: the map after popping the expired deliveries
PopExpired(dl, expired) == dl \ expired

\* ClientHandler.start that reuses the iteration
start_sameIteration(hd) ==
    [hd EXCEPT !.link = "open", !.credit = 0, !.unsettled = {}]

\* ClientHandler.start / SenderHandler.on_start / ReceiverHandler.on_start
start(hd) ==
    [hd EXCEPT !.iteration = @ + 1, !.link = "open", !.credit = 0,
               !.unsettled = {}]

\* ClientHandler.stop that does not release the link
stop_keepLink(hd) == on_link_closed(hd)

\* ClientHandler.stop: on_stop (on_link_closed for a sender), then the link
\* is closed, freed and forgotten
stop(hd) ==
    [on_link_closed(hd) EXCEPT !.link = None, !.credit = 0, !.unsettled = {}]

IsSender(h) == h \in DOMAIN clients /\ clients[h].class = "SenderHandler"

fatal_conditions == {"amqp:unauthorized-access", "amqp:not-found"}
RemoteConditions == {None, "amqp:not-found"}

\* ------------------------------------------------------------------- Init
SendInit ==
    /\ stopped = FALSE
    /\ connection = None
    /\ clients = <<>>
    /\ daemon = FALSE
    /\ reactor = "init"
    /\ stopEvent = FALSE
    /\ triggered = {}
    /\ handlers = [h \in Handlers |-> InitHandler]
    /\ events = <<>>
    /\ s_handler = 0
    /\ s_event = FALSE
    /\ s_outcome = None
    /\ s_condition = None
    /\ callerPc = [t \in Callers |-> "idle"]
    /\ callerRec = [t \in Callers |-> 0]
    /\ lastResult = [t \in Callers |-> "none"]
    /\ stops = 0
    /\ closes = 0

\* AsyncReceiver.__init__
InitReceiver(prefetch) ==
    [prefetch |-> prefetch, link |-> None, credit |-> 0, delivered |-> 0,
     messages |-> <<>>, waiter |-> None, closed |-> FALSE, offset |-> 0]

\* no receive call inside `with self.lock`: the lock not held, batch = []
NoCall == [lock |-> "free", size |-> 0, batch |-> <<>>]

\* the reactor thread outside ReceiverHandler.stop
NotStopping == [pc |-> "none", restart |-> FALSE]

RecvInitWith(prefetch) ==
    /\ rcv = InitReceiver(prefetch)
    /\ rcvHandler = [link |-> None, timer |-> FALSE]
    /\ linkCredit = 0
    /\ rcvTimers = 0
    /\ rcvPc = "idle"
    /\ rcvCount = 0
    /\ rcvResult = [kind |-> "none", batch |-> <<>>]
    /\ rcvCall = NoCall
    /\ rcvReactor = NotStopping
    /\ rcvGhost = [granted |-> 0, arrived |-> 0, taken |-> 0, restarts |-> 0,
                   started |-> FALSE, left |-> MaxMessages,
                   lastTaken |-> 0, takenAll |-> 0, dropped |-> 0]

\* a registered client before run_async: add_async_receiver / add_async_sender
NewLink ==
    [task |-> "new", error |-> None, redirected |-> None, state |-> "idle",
     conn |-> 0, startError |-> None]

\* EventHubClientAsync with n registered clients, before run_async
RunInitWith(n) ==
    /\ aclient = [stopped |-> FALSE, connection |-> <<>>, auth |-> "h0"]
    /\ alinks = [i \in 1..n |-> NewLink]
    /\ runPc = "idle"
    /\ runResult = [kind |-> "none", failed |-> <<>>]

\* EventHubPartitionPump.__init__ after PartitionPump.__init__: nothing is
\* open, no call is in progress
NewPump == [pump_status |-> "Uninitialized", msg_queue |-> None,
            eh_client |-> None, partition_receiver |-> None,
            partition_receive_handler |-> None]

NotOpening == [pc |-> "idle", opened_ok |-> FALSE, retry_count |-> 0,
               last_exception |-> <<>>, msg |-> <<>>]

PumpInitial ==
    /\ pump = NewPump
    /\ opn = NotOpening
    /\ queue = <<>>
    /\ pclient = [state |-> "none", stops |-> 0, next |-> 1]
    /\ closePc = "idle"
    /\ pghost = [reported |-> <<>>, processed |-> <<>>, attempts |-> 0,
                 faults |-> 0, faultIn |-> "none", atFault |-> <<>>,
                 admitted |-> <<>>,
                 spun |-> FALSE, raised |-> 0]

\* Offset(value, inclusive) with the default arguments of Receiver: "-1"
OffsetInitial ==
    /\ offset = [kind |-> "offset", value |-> "-1", inclusive |-> FALSE]
    /\ selected = <<>>

\* EventHubClient.__init__: nothing scheduled, nothing heard from the peer
LifeInitial ==
    /\ clientTimers = 0
    /\ lifeGhost = [closes |-> 0, afterStop |-> 0, held |-> {}]

Init ==
    /\ SendInit /\ RecvInitWith(DefaultPrefetch) /\ RunInitWith(1)
    /\ PumpInitial /\ OffsetInitial /\ LifeInitial

senderVars == <<s_event, s_outcome, s_condition>>
callerVars == <<callerPc, callerRec, lastResult>>
ghostVars == <<stops, closes>>
clientVars == <<stopped, connection, clients, daemon, reactor, stopEvent>>

SetSender(sa) ==
    /\ s_outcome' = sa.outcome
    /\ s_condition' = sa.condition
    /\ s_event' = sa.event

\* ------------------------------------------------- application API calls

\* EventHubClient.publish(sender)
Publish ==
    /\ reactor = "init"
    /\ Len(clients) < MaxHandlers
    /\ IF check_client(SenderObj, clients)
       THEN UNCHANGED <<clients, s_handler, handlers>>
       ELSE /\ clients' = Append(clients, NewHandler("SenderHandler", Len(clients) + 1))
            /\ s_handler' = Len(clients) + 1
            /\ handlers' = [handlers EXCEPT ![Len(clients) + 1] = InitHandler]
    /\ UNCHANGED <<stopped, connection, daemon, reactor, stopEvent, triggered,
                   events, senderVars, callerVars, ghostVars>>
    /\ UNCHANGED <<recvVars, runVars, pumpVars, offVars, lifeVars>>

\* EventHubClient.subscribe(receiver, ...)
Subscribe ==
    /\ reactor = "init"
    /\ Len(clients) < MaxHandlers
    /\ IF check_client(ReceiverObj, clients)
       THEN UNCHANGED <<clients, handlers>>
       ELSE /\ clients' = Append(clients, NewHandler("ReceiverHandler", Len(clients) + 1))
            /\ handlers' = [handlers EXCEPT ![Len(clients) + 1] = InitHandler]
    /\ UNCHANGED <<stopped, connection, daemon, reactor, stopEvent, triggered,
                   events, s_handler, senderVars, callerVars, ghostVars>>
    /\ UNCHANGED <<recvVars, runVars, pumpVars, offVars, lifeVars>>

\* SenderHandler.send: queue.put(event); injector.trigger(event)
Enqueue(kind, state, t) ==
    /\ events' = Append(events,
                        DeliveryEvent(kind, s_handler, state, t, stopped))
    /\ handlers' = [handlers EXCEPT ![s_handler].queue = Append(@, Len(events) + 1)]
    /\ triggered' = triggered \cup {s_handler}

\* Sender.send up to self._event.wait()
Send(t) ==
    /\ callerPc[t] = "idle"
    /\ IF Sender_check(s_handler)
       THEN /\ lastResult' = [lastResult EXCEPT ![t] = "configError"]
            /\ UNCHANGED <<events, handlers, triggered, s_event, callerPc, callerRec>>
       ELSE /\ Len(events) < MaxSends
            /\ s_event' = FALSE
            /\ Enqueue("send", 0, t)
            /\ callerPc' = [callerPc EXCEPT ![t] = "waiting"]
            /\ callerRec' = [callerRec EXCEPT ![t] = Len(events) + 1]
            /\ UNCHANGED lastResult
    /\ UNCHANGED <<clientVars, s_handler, s_outcome, s_condition, ghostVars>>
    /\ UNCHANGED <<recvVars, runVars, pumpVars, offVars, lifeVars>>

\* Sender.send after self._event.wait() returned
SendReturn(t) ==
    /\ callerPc[t] = "waiting"
    /\ s_event
    /\ lastResult' = [lastResult EXCEPT ![t] =
                        IF s_outcome # ACCEPTED THEN "raised" ELSE "ok"]
    /\ callerPc' = [callerPc EXCEPT ![t] = "idle"]
    /\ UNCHANGED <<clientVars, triggered, handlers, events, s_handler,
                   senderVars, callerRec, ghostVars>>
    /\ UNCHANGED <<recvVars, runVars, pumpVars, offVars, lifeVars>>

\* Sender.transfer
Transfer(t) ==
    /\ callerPc[t] = "idle"
    /\ IF Sender_check(s_handler)
       THEN /\ lastResult' = [lastResult EXCEPT ![t] = "configError"]
            /\ UNCHANGED <<events, handlers, triggered>>
       ELSE /\ Len(events) < MaxSends
            /\ Enqueue("transfer", Len(events) + 1, t)
            /\ UNCHANGED lastResult
    /\ UNCHANGED <<clientVars, s_handler, senderVars, callerPc, callerRec, ghostVars>>
    /\ UNCHANGED <<recvVars, runVars, pumpVars, offVars, lifeVars>>

\* EventHubClient.on_reactor_init, reached through run() or run_daemon()
Run ==
    /\ reactor = "init"
    /\ ~stopped
    /\ \E d \in BOOLEAN : daemon' = d
    /\ reactor' = "running"
    /\ connection' = "open"
    /\ handlers' = [h \in Handlers |->
                        IF h \in DOMAIN clients THEN start(handlers[h])
                        ELSE handlers[h]]
    /\ UNCHANGED <<stopped, clients, stopEvent, triggered, events, s_handler,
                   senderVars, callerVars, ghostVars>>
    /\ UNCHANGED <<recvVars, runVars, pumpVars, offVars, lifeVars>>

\* EventHubClient.on_stop_client
on_stop_client ==
    LET done == UNION {handlers[h].deliveries : h \in DOMAIN clients}
    IN  /\ stopped' = TRUE
        /\ handlers' = [h \in Handlers |->
                            IF h \in DOMAIN clients THEN stop(handlers[h])
                            ELSE handlers[h]]
        /\ events' = CompleteAll(events, done, RELEASED, None)
        /\ SetSender(SenderAfter(events, done, RELEASED, None))
        /\ connection' = None

\* EventHubClient.stop
Stop ==
    /\ stops < MaxStops
    /\ stops' = stops + 1
    /\ IF daemon
       THEN /\ ~stopEvent
            /\ stopEvent' = (reactor = "running")
            /\ UNCHANGED <<stopped, handlers, events, senderVars, connection>>
       ELSE /\ on_stop_client
            /\ UNCHANGED stopEvent
    /\ UNCHANGED <<clients, daemon, reactor, triggered, s_handler, callerVars, closes>>
    /\ UNCHANGED <<recvVars, runVars, pumpVars, offVars, lifeVars>>

\* the reactor thread dispatches the injected STOP_CLIENT event and ends
OnStopClient ==
    /\ reactor = "running"
    /\ stopEvent
    /\ on_stop_client
    /\ stopEvent' = FALSE
    /\ reactor' = "final"
    /\ UNCHANGED <<clients, daemon, triggered, s_handler, callerVars, ghostVars>>
    /\ UNCHANGED <<recvVars, runVars, pumpVars, offVars, lifeVars>>

\* ------------------------------------------------------ reactor callbacks

\* EventHubClient.on_send: the injected SEND event calls on_sendable(None)
OnSend(h) ==
    /\ reactor = "running"
    /\ h \in triggered
    /\ triggered' = triggered \ {h}
    /\ handlers' = [handlers EXCEPT ![h] = on_sendable(@)]
    /\ events' = MarkHanded(events, handlers[h], handlers'[h])
    /\ UNCHANGED <<clientVars, s_handler, senderVars, callerVars, ghostVars>>
    /\ UNCHANGED <<recvVars, runVars, pumpVars, offVars, lifeVars>>

\* the broker grants link credit: OutgoingMessageHandler.on_link_flow calls
\* SenderHandler.on_sendable
Flow(h) ==
    /\ reactor = "running"
    /\ connection = "open"
    /\ IsSender(h)
    /\ handlers[h].link = "open"
    /\ handlers[h].credit < MaxCredit
    /\ handlers' = [handlers EXCEPT ![h] = on_sendable([@ EXCEPT !.credit = @ + 1])]
    /\ events' = MarkHanded(events, handlers[h], handlers'[h])
    /\ UNCHANGED <<clientVars, triggered, s_handler, senderVars, callerVars, ghostVars>>
    /\ UNCHANGED <<recvVars, runVars, pumpVars, offVars, lifeVars>>

\* SenderHandler.on_delivery for a delivery the broker updated
on_delivery(h, r, outcome) ==
    LET cond == IF outcome = ACCEPTED THEN None ELSE "amqp:error"
        found == IF r \in handlers[h].deliveries THEN {r} ELSE {}
    IN  /\ reactor = "running"
        /\ connection = "open"
        /\ handlers[h].link = "open"
        /\ r \in handlers[h].unsettled
        /\ handlers' = [handlers EXCEPT ![h].deliveries = PopDelivery(@, r),
                                        ![h].unsettled = @ \ {r}]
        /\ events' = CompleteAll(events, found, outcome, cond)
        /\ SetSender(SenderAfter(events, found, outcome, cond))
        /\ UNCHANGED <<clientVars, triggered, s_handler, callerVars, ghostVars>>
        /\ UNCHANGED <<recvVars, runVars, pumpVars, offVars, lifeVars>>

\* DeliveryTracker.on_timer_task: task = None; SenderHandler.check_timeout
on_timer_task_tracker(h) ==
    LET hd == handlers[h]
        expired == ExpiredSet(events, hd.deliveries)
        h1 == [hd EXCEPT !.task = <<>>,
                         !.deliveries = PopExpired(@, expired),
                         !.unsettled = @ \ expired]
        evs == CompleteAll(events, expired, RELEASED, "timeout")
    IN  /\ reactor = "running"
        /\ hd.task = <<0>>
        /\ handlers' = [handlers EXCEPT ![h] = on_sendable(h1)]
        /\ events' = MarkHanded(evs, h1, handlers'[h])
        /\ SetSender(SenderAfter(events, expired, RELEASED, "timeout"))
        /\ UNCHANGED <<clientVars, triggered, s_handler, callerVars, ghostVars>>
        /\ UNCHANGED <<recvVars, runVars, pumpVars, offVars, lifeVars>>

\* the clock advances: DeliveryEvent.elapsed() grows and the tracker's task
\* comes closer to firing
Tick ==
    /\ reactor = "running"
    /\ \/ \E r \in DOMAIN events : events[r].completions = 0 /\ events[r].age < TIMEOUT
       \/ \E h \in Handlers : handlers[h].task # <<>> /\ handlers[h].task # <<0>>
    /\ events' = [r \in DOMAIN events |->
                    IF events[r].completions = 0
                    THEN [events[r] EXCEPT !.age = Min(TIMEOUT, @ + TickStep)]
                    ELSE events[r]]
    /\ handlers' = [h \in Handlers |->
                    IF handlers[h].task # <<>>
                    THEN [handlers[h] EXCEPT !.task = <<Max(0, @[1] - TickStep)>>]
                    ELSE handlers[h]]
    /\ UNCHANGED <<clientVars, triggered, s_handler, senderVars, callerVars, ghostVars>>
    /\ UNCHANGED <<recvVars, runVars, pumpVars, offVars, lifeVars>>

\* ClientHandler.on_link_remote_close
on_link_remote_close(h, condition) ==
    LET hd == handlers[h]
        done == hd.deliveries
        h1 == [on_link_closed(hd) EXCEPT !.unsettled = {}]
    IN  /\ reactor = "running"
        /\ connection = "open"
        /\ h \in DOMAIN clients
        /\ hd.link = "open"
        /\ closes < MaxRemoteCloses
        /\ closes' = closes + 1
        /\ events' = CompleteAll(events, done, RELEASED, condition)
        /\ SetSender(SenderAfter(events, done, RELEASED, condition))
        /\ IF condition \in fatal_conditions
           THEN /\ connection' = "closed"
                /\ handlers' = [handlers EXCEPT ![h] = [h1 EXCEPT !.link = "closed"]]
           ELSE /\ handlers' = [handlers EXCEPT ![h] =
                                    [h1 EXCEPT !.link = None, !.credit = 0,
                                               !.timers = @ + 1]]
                /\ UNCHANGED connection
        /\ UNCHANGED <<stopped, clients, daemon, reactor, stopEvent, triggered,
                       s_handler, callerVars, stops>>
        /\ UNCHANGED <<recvVars, runVars, pumpVars, offVars, lifeVars>>

\* ClientHandler.on_timer_task
on_timer_task(h) ==
    /\ reactor = "running"
    /\ handlers[h].timers > 0
    /\ handlers' = [handlers EXCEPT ![h] =
                        IF @.link = None /\ ~stopped
                        THEN [start(@) EXCEPT !.timers = @ - 1]
                        ELSE [@ EXCEPT !.timers = @ - 1]]
    /\ UNCHANGED <<clientVars, triggered, events, s_handler, senderVars,
                   callerVars, ghostVars>>
    /\ UNCHANGED <<recvVars, runVars, pumpVars, offVars, lifeVars>>

\* ------------------------------------------------------------------ Next
SendNext ==
    \/ Publish
    \/ Subscribe
    \/ Run
    \/ Stop
    \/ OnStopClient
    \/ \E t \in Threads : Send(t)
    \/ \E t \in Threads : SendReturn(t)
    \/ \E t \in Threads : Transfer(t)
    \/ \E h \in Handlers : OnSend(h)
    \/ \E h \in Handlers : Flow(h)
    \/ \E h \in Handlers, r \in DOMAIN events, o \in {ACCEPTED, REJECTED} :
            on_delivery(h, r, o)
    \/ \E h \in Handlers : on_timer_task_tracker(h)
    \/ Tick
    \/ \E h \in Handlers, c \in RemoteConditions : on_link_remote_close(h, c)
    \/ \E h \in Handlers : on_timer_task(h)

Next == SendNext

Spec == Init /\ [][Next]_vars

TypeOK ==
    /\ stopped \in BOOLEAN
    /\ connection \in {None, "open", "closed"}
    /\ Len(clients) <= MaxHandlers
    /\ Len(events) <= MaxSends
    /\ \A h \in Handlers : handlers[h].credit \in 0..MaxCredit

\* The reactor thread keeps dispatching its callbacks and timers, the clock
\* keeps advancing and a woken caller proceeds.  What the broker does
\* (credit, dispositions, closing links) and what the application calls are
\* not forced.
Fairness ==
    /\ WF_vars(OnStopClient)
    /\ WF_vars(Tick)
    /\ \A t \in Threads : WF_vars(SendReturn(t))
    /\ \A h \in Handlers : WF_vars(OnSend(h))
    /\ \A h \in Handlers : WF_vars(on_timer_task_tracker(h))
    /\ \A h \in Handlers : WF_vars(on_timer_task(h))

FairSpec == Init /\ [][Next]_vars /\ Fairness

\* ----------------------------------------------------------------- claims
HandlerOf(r) == handlers[events[r].handler]
OnLink(r) == r \in HandlerOf(r).deliveries

\* C1: every DeliveryEvent handed to the link has its completion callback
\* invoked exactly once: not at all while it is in the deliveries map, once
\* as soon as it has left the map, and never twice.
C1_ExactlyOneCompletion ==
    \A r \in DOMAIN events :
        /\ events[r].completions <= 1
        /\ OnLink(r) => events[r].handed /\ events[r].completions = 0
        /\ (events[r].handed /\ ~OnLink(r)) => events[r].completions = 1
        /\ (stopped /\ events[r].handed) => events[r].completions = 1

C1_Witness ==
    /\ stopped
    /\ \E r \in DOMAIN events :
        events[r].handed /\ events[r].completions = 1 /\ events[r].outcome = RELEASED
    /\ \E r \in DOMAIN events :
        events[r].handed /\ events[r].completions = 1 /\ events[r].outcome = ACCEPTED

\* C2: every Sender.send call on a running, not stopped client eventually
\* returns, also when the broker grants no credit and never acknowledges.
C2_SendEventuallyReturns ==
    \A t \in Threads :
        (callerPc[t] = "waiting" /\ reactor = "running" /\ ~stopped /\ ~stopEvent)
            ~> (callerPc[t] = "idle" \/ stopped \/ stopEvent)

\* C3: when a link is closed (by stop or by the peer) every outstanding
\* DeliveryEvent is completed with RELEASED, and afterwards the deliveries
\* map and the pending queue are both empty, no pending message having
\* been handed to the link.
C3_LinkClosureReleasesAndDrains ==
    [][\A h \in DOMAIN clients :
        (handlers[h].link = "open" /\ handlers'[h].link # "open") =>
            /\ \A r \in handlers[h].deliveries :
                    /\ events'[r].completions = 1
                    /\ events'[r].outcome = RELEASED
            /\ handlers'[h].deliveries = {}
            /\ handlers'[h].queue = <<>>
            /\ \A r \in Range(handlers[h].queue) : ~events'[r].handed]_vars

\* C4: once stop has been processed, every Sender.send call that was in
\* flight has been completed and its caller woken.
C4_StopResolvesSends ==
    stopped =>
        \A t \in Threads :
            (callerPc[t] = "waiting" /\ ~events[callerRec[t]].afterStop) =>
                /\ events[callerRec[t]].completions = 1
                /\ s_event

\* C5: Sender.send returns normally exactly when its delivery was ACCEPTED
\* and raises otherwise; a transfer never makes its caller wait and its
\* callback receives the same event, and None exactly when ACCEPTED.
C5_OutcomeSurfaced ==
    /\ \A t \in Threads :
        /\ callerPc[t] = "waiting" => events[callerRec[t]].kind = "send"
        /\ (callerPc[t] = "idle" /\ lastResult[t] \in {"ok", "raised"}) =>
                /\ events[callerRec[t]].completions = 1
                /\ lastResult[t] = "ok" <=> events[callerRec[t]].outcome = ACCEPTED
    /\ \A r \in DOMAIN events :
        events[r].kind = "transfer" =>
            IF events[r].completions = 0
            THEN events[r].cbArg = <<>>
            ELSE /\ events[r].cbArg[1] = r
                 /\ events[r].cbArg[2] = <<>> <=> events[r].outcome = ACCEPTED

C5_Witness ==
    /\ \E t \in Threads : callerPc[t] = "idle" /\ lastResult[t] = "raised"
    /\ \E r \in DOMAIN events :
        /\ events[r].kind = "transfer"
        /\ events[r].completions = 1
        /\ events[r].outcome = ACCEPTED

\* C6: while the Sender is not registered, send and transfer raise the
\* configuration error and change nothing: no DeliveryEvent is created,
\* nothing is queued, no injector event is triggered, no caller waits.
C6_UnregisteredSenderFailsFast ==
    [][s_handler = 0 =>
        /\ events' = events
        /\ triggered' = triggered
        /\ \A h \in Handlers : handlers'[h].queue = handlers[h].queue
        /\ callerPc' = callerPc
        /\ \A t \in Threads :
            lastResult'[t] # lastResult[t] => lastResult'[t] = "configError"]_vars

C6_Witness ==
    /\ s_handler = 0
    /\ \E t \in Threads : lastResult[t] = "configError"
    /\ reactor = "running"

\* C7: a Sender (or Receiver) is never registered twice: a second publish
\* (subscribe) of the same entity is rejected and adds no handler.
C7_NoDoubleRegistration ==
    /\ Cardinality({h \in DOMAIN clients : clients[h].class = "SenderHandler"}) <= 1
    /\ Cardinality({h \in DOMAIN clients : clients[h].class = "ReceiverHandler"}) <= 1

\* C8: a send or transfer called after the client was stopped raises a
\* configuration error: it creates no DeliveryEvent and leaves no caller
\* waiting.
C8_SendAfterStopFails ==
    \A r \in DOMAIN events : ~events[r].afterStop

\* C9: after stop the client is marked stopped, every handler's link is
\* released, no delivery is outstanding and the connection is destroyed; a
\* further stop call changes none of this and completes nothing again.
C9_StopIdempotent ==
    [][/\ stopped' =>
            /\ connection' = None
            /\ \A h \in DOMAIN clients :
                /\ handlers'[h].link = None
                /\ handlers'[h].deliveries = {}
                /\ handlers'[h].task = <<>>
       /\ (stopped /\ stops' # stops) =>
            /\ UNCHANGED <<stopped, connection, handlers, events, senderVars>>
            /\ \A r \in DOMAIN events : events'[r].completions <= 1]_vars

C9_Witness ==
    /\ stopped
    /\ stops = 2
    /\ \E r \in DOMAIN events :
        events[r].completions = 1 /\ events[r].outcome = RELEASED

\* ------------------------------------------------------------ AsyncReceiver

\* AsyncReceiver._check_flow: its condition
FlowDue(r) == r.delivered >= Watermark /\ r.link # None

\* _check_flow that does not reset the delivered count after the grant
check_flow_noReset(r) ==
    IF FlowDue(r)
    THEN [r EXCEPT !.credit = @ + r.delivered]
    ELSE r

\* AsyncReceiver._check_flow
check_flow(r) ==
    IF FlowDue(r)
    THEN [r EXCEPT !.credit = @ + r.delivered, !.delivered = 0]
    ELSE r

\* the N of the link.flow(N) that _check_flow issues, 0 when it issues none
FlowGrant(r) == IF FlowDue(r) THEN r.delivered ELSE 0

\* CFlowController(receiver.prefetch), installed by ReceiverHandler.__init__
\* when receiver.prefetch is truthy: it keeps the link's credit at its window
TopUp(window, c) == IF window > 0 THEN window ELSE c

\* AsyncReceiver.on_start
on_start(r) ==
    [r EXCEPT !.link = "open", !.credit = r.prefetch, !.delivered = 0]

\* AsyncReceiver.on_stop, up to its loop that empties the buffer
on_stop(r, closed) ==
    [r EXCEPT !.closed = closed, !.link = None]

\* AsyncReceiver.on_message, the part under the lock
on_message(r, event_data) ==
    LET r1 == [r EXCEPT !.offset = event_data,
                        !.messages = Append(@, event_data),
                        !.credit = @ - 1]
        r2 == check_flow(r1)
    IN  [r2 EXCEPT !.waiter = None]

\* one pass of the inner loop of receive that leaves the event in the buffer
receive_get_peek(r) ==
    [r EXCEPT !.delivered = @ + 1]

\* one pass of the inner loop of receive: batch.append(self.messages.get())
\* and self.delivered += 1
receive_get(r) ==
    [r EXCEPT !.messages = Tail(@), !.delivered = @ + 1]

\* a loop test of receive that also gives up when no event is buffered
receive_while_data(r) == ~r.closed /\ r.messages # <<>>

\* receive: the test of `while not self.closed`
receive_while(r) == ~r.closed

\* the callbacks of the reactor thread run one at a time
ReactorFree == rcvReactor.pc = "none"

\* `with self.lock` in a reactor callback waits for the consumer to leave
LockFree == rcvCall.lock = "free"

\* ReceiverHandler.start -> on_start, from EventHubClient.on_reactor_init
StartReceiverLink ==
    /\ rcv' = on_start(rcv)
    /\ rcvHandler' = [link |-> "open", timer |-> FALSE]
    /\ linkCredit' = TopUp(rcv.prefetch, rcv.prefetch)
    /\ rcvGhost' = [rcvGhost EXCEPT !.granted = rcv.prefetch, !.arrived = 0,
                                    !.taken = 0, !.started = TRUE]

RcvStart ==
    /\ ReactorFree
    /\ ~rcvGhost.started
    /\ ~rcv.closed
    /\ StartReceiverLink
    /\ UNCHANGED <<rcvTimers, rcvPc, rcvCount, rcvResult, rcvCall, rcvReactor>>
    /\ UNCHANGED <<sendVars, runVars, pumpVars, offVars, lifeVars>>

\* ReceiverHandler.on_message -> AsyncReceiver.on_message
RcvMessage ==
    LET r1 == on_message(rcv, rcv.offset + 1)
        mid == [rcv EXCEPT !.messages = Append(@, rcv.offset + 1), !.credit = @ - 1]
    IN  /\ ReactorFree
        /\ LockFree
        /\ rcvHandler.link = "open"
        /\ linkCredit > 0
        /\ rcvGhost.left > 0
        /\ rcv' = r1
        /\ linkCredit' = TopUp(rcv.prefetch, linkCredit - 1) + FlowGrant(mid)
        /\ rcvTimers' = IF r1.credit = 0 THEN rcvTimers + 1 ELSE rcvTimers
        /\ rcvPc' = IF rcv.waiter # None /\ rcvPc = "await" THEN "loop" ELSE rcvPc
        /\ rcvGhost' = [rcvGhost EXCEPT
                            !.arrived = @ + 1,
                            !.left = @ - 1,
                            !.granted = IF FlowDue(mid) THEN FlowGrant(mid) ELSE @]
        /\ UNCHANGED <<rcvHandler, rcvCount, rcvResult, rcvCall, rcvReactor>>
        /\ UNCHANGED <<sendVars, runVars, pumpVars, offVars, lifeVars>>

\* AsyncReceiver.on_timer_task
RcvTimer ==
    /\ ReactorFree
    /\ LockFree
    /\ rcvTimers > 0
    /\ rcv' = check_flow(rcv)
    /\ linkCredit' = linkCredit + FlowGrant(rcv)
    /\ rcvTimers' = IF rcv.waiter = None /\ Len(rcv.messages) > 0
                    THEN rcvTimers ELSE rcvTimers - 1
    /\ rcvGhost' = [rcvGhost EXCEPT
                        !.granted = IF FlowDue(rcv) THEN FlowGrant(rcv) ELSE @]
    /\ UNCHANGED <<rcvHandler, rcvPc, rcvCount, rcvResult, rcvCall, rcvReactor>>
    /\ UNCHANGED <<sendVars, runVars, pumpVars, offVars, lifeVars>>

\* the consumer calls AsyncReceiver.receive(count)
RcvReceive(count) ==
    /\ rcvPc = "idle"
    /\ rcvPc' = "loop"
    /\ rcvCount' = count
    /\ rcvCall' = NoCall
    /\ UNCHANGED <<rcv, rcvHandler, linkCredit, rcvTimers, rcvResult,
                   rcvReactor, rcvGhost>>
    /\ UNCHANGED <<sendVars, runVars, pumpVars, offVars, lifeVars>>

\* receive: the test of `while not self.closed`, then `with self.lock` and
\* size = self.messages.qsize()
RcvLoop ==
    /\ rcvPc = "loop"
    /\ IF ~receive_while(rcv)
       THEN /\ rcvResult' = [kind |-> "closed", batch |-> <<>>]
            /\ rcvPc' = "idle"
            /\ UNCHANGED rcvCall
       ELSE /\ LockFree
            /\ rcvCall' = [rcvCall EXCEPT !.lock = "consumer",
                                          !.size = Len(rcv.messages)]
            /\ rcvPc' = "take"
            /\ UNCHANGED rcvResult
    /\ UNCHANGED <<rcv, rcvHandler, linkCredit, rcvTimers, rcvCount,
                   rcvReactor, rcvGhost>>
    /\ UNCHANGED <<sendVars, runVars, pumpVars, offVars, lifeVars>>

\* receive under the lock: one pass of `while size > 0 and count > 0` (get
\* waits while the buffer is empty), or what follows the loop: return the
\* batch, or create the waiter and leave the lock to await it
RcvTake ==
    /\ rcvPc = "take"
    /\ IF rcvCall.size > 0 /\ Len(rcvCall.batch) < rcvCount
       THEN /\ Len(rcv.messages) > 0
            /\ rcv' = receive_get(rcv)
            /\ rcvCall' = [rcvCall EXCEPT !.size = @ - 1,
                                          !.batch = Append(@, Head(rcv.messages))]
            /\ rcvGhost' = [rcvGhost EXCEPT !.taken = @ + 1,
                                            !.takenAll = @ + 1,
                                            !.lastTaken = Head(rcv.messages)]
            /\ UNCHANGED <<rcvPc, rcvResult>>
       ELSE IF rcvCall.batch # <<>>
            THEN /\ rcvResult' = [kind |-> "batch", batch |-> rcvCall.batch]
                 /\ rcvPc' = "idle"
                 /\ rcvCall' = NoCall
                 /\ UNCHANGED <<rcv, rcvGhost>>
            ELSE /\ rcv' = [rcv EXCEPT !.waiter = "future"]
                 /\ rcvPc' = "await"
                 /\ rcvCall' = NoCall
                 /\ UNCHANGED <<rcvResult, rcvGhost>>
    /\ UNCHANGED <<rcvHandler, linkCredit, rcvTimers, rcvCount, rcvReactor>>
    /\ UNCHANGED <<sendVars, runVars, pumpVars, offVars, lifeVars>>

\* ClientHandler.on_link_remote_close on the receiver's link, no fatal
\* condition: ReceiverHandler has no on_link_closed, the link is forgotten
\* and a restart is scheduled
RcvRemoteClose ==
    /\ ReactorFree
    /\ rcvHandler.link = "open"
    /\ rcvGhost.restarts < MaxRestarts
    /\ rcvHandler' = [link |-> None, timer |-> TRUE]
    /\ linkCredit' = 0
    /\ rcvGhost' = [rcvGhost EXCEPT !.restarts = @ + 1]
    /\ UNCHANGED <<rcv, rcvTimers, rcvPc, rcvCount, rcvResult, rcvCall, rcvReactor>>
    /\ UNCHANGED <<sendVars, runVars, pumpVars, offVars, lifeVars>>

\* EventHubClient.on_session_remote_close: _close_clients stops the handler
\* (AsyncReceiver.on_stop(False)); the restart is scheduled once it returns
RcvSessionClose ==
    /\ ReactorFree
    /\ rcvHandler.link = "open"
    /\ rcvGhost.restarts < MaxRestarts
    /\ rcv' = on_stop(rcv, FALSE)
    /\ rcvReactor' = [pc |-> "check", restart |-> TRUE]
    /\ rcvGhost' = [rcvGhost EXCEPT !.restarts = @ + 1]
    /\ UNCHANGED <<rcvHandler, linkCredit, rcvTimers, rcvPc, rcvCount,
                   rcvResult, rcvCall>>
    /\ UNCHANGED <<sendVars, runVars, pumpVars, offVars, lifeVars>>

\* EventHubClient.on_stop_client -> ReceiverHandler.stop ->
\* AsyncReceiver.on_stop(True)
RcvStop ==
    /\ ReactorFree
    /\ rcvGhost.started
    /\ ~rcv.closed
    /\ rcv' = on_stop(rcv, TRUE)
    /\ rcvReactor' = [pc |-> "check", restart |-> FALSE]
    /\ UNCHANGED <<rcvHandler, linkCredit, rcvTimers, rcvPc, rcvCount,
                   rcvResult, rcvCall, rcvGhost>>
    /\ UNCHANGED <<sendVars, runVars, pumpVars, offVars, lifeVars>>

\* AsyncReceiver.on_stop: `while not self.messages.empty(): self.messages.get()`
\* one test or one get at a time (get waits while the buffer is empty), then
\* the rest of ClientHandler.stop: the link is closed and forgotten
RcvDrain ==
    /\ rcvReactor.pc # "none"
    /\ IF rcvReactor.pc = "check"
       THEN IF rcv.messages = <<>>
            THEN /\ rcvReactor' = NotStopping
                 /\ rcvHandler' = [link |-> None,
                                   timer |-> rcvHandler.timer \/ rcvReactor.restart]
                 /\ linkCredit' = 0
                 /\ UNCHANGED <<rcv, rcvGhost>>
            ELSE /\ rcvReactor' = [rcvReactor EXCEPT !.pc = "get"]
                 /\ UNCHANGED <<rcv, rcvHandler, linkCredit, rcvGhost>>
       ELSE /\ Len(rcv.messages) > 0
            /\ rcv' = [rcv EXCEPT !.messages = Tail(@)]
            /\ rcvReactor' = [rcvReactor EXCEPT !.pc = "check"]
            /\ rcvGhost' = [rcvGhost EXCEPT !.dropped = @ + 1]
            /\ UNCHANGED <<rcvHandler, linkCredit>>
    /\ UNCHANGED <<rcvTimers, rcvPc, rcvCount, rcvResult, rcvCall>>
    /\ UNCHANGED <<sendVars, runVars, pumpVars, offVars, lifeVars>>

\* the scheduled restart fires: ClientHandler.start -> on_start
RcvRestart ==
    /\ ReactorFree
    /\ rcvHandler.timer
    /\ IF rcvHandler.link = None /\ ~rcv.closed
       THEN StartReceiverLink
       ELSE /\ rcvHandler' = [rcvHandler EXCEPT !.timer = FALSE]
            /\ UNCHANGED <<rcv, linkCredit, rcvGhost>>
    /\ UNCHANGED <<rcvTimers, rcvPc, rcvCount, rcvResult, rcvCall, rcvReactor>>
    /\ UNCHANGED <<sendVars, runVars, pumpVars, offVars, lifeVars>>

RecvCounts == {1, 3}
PrefetchValues == {SmallPrefetch, DefaultPrefetch}

\* A receiver that was started and has already received w events, each of
\* them returned by a receive(1) call before the next one arrived
WarmedUp(prefetch, w) ==
    /\ rcv = [InitReceiver(prefetch) EXCEPT !.link = "open",
                                            !.credit = prefetch - w,
                                            !.delivered = w,
                                            !.offset = w]
    /\ rcvHandler = [link |-> "open", timer |-> FALSE]
    /\ linkCredit = TopUp(prefetch, prefetch)
    /\ rcvTimers = 0
    /\ rcvPc = "idle"
    /\ rcvCount = 1
    /\ rcvResult = [kind |-> "batch", batch |-> <<w>>]
    /\ rcvCall = NoCall
    /\ rcvReactor = NotStopping
    /\ rcvGhost = [granted |-> prefetch, arrived |-> w, taken |-> w,
                   restarts |-> 0, started |-> TRUE, left |-> MaxMessages,
                   lastTaken |-> w, takenAll |-> w, dropped |-> 0]

\* the events already received and consumed when the model starts: none
\* (a receiver before its start), or just short of the flow watermark
WarmUp == Watermark - 3

RecvInit ==
    /\ SendInit
    /\ RunInitWith(1)
    /\ PumpInitial /\ OffsetInitial /\ LifeInitial
    /\ \E p \in PrefetchValues :
        \/ RecvInitWith(p)
        \/ WarmedUp(p, WarmUp)

RecvNext ==
    \/ RcvStart
    \/ RcvMessage
    \/ RcvTimer
    \/ \E c \in RecvCounts : RcvReceive(c)
    \/ RcvLoop
    \/ RcvTake
    \/ RcvRemoteClose
    \/ RcvSessionClose
    \/ RcvRestart
    \/ RcvStop
    \/ RcvDrain

RecvSpec == RecvInit /\ [][RecvNext]_vars

C11_WatermarkPolicy ==
    [][(/\ rcvGhost'.arrived = rcvGhost.arrived + 1
        /\ rcv'.link # None
        /\ (rcv.delivered >= Watermark \/ rcv.credit - 1 = 0))
            => /\ rcvGhost'.granted = rcv.delivered
               /\ rcv'.credit = rcv.credit - 1 + rcv.delivered
               /\ rcv'.delivered = 0]_vars

\* The reactor thread runs every scheduled timer and handles every delivery
\* the broker makes while it has events and the link has credit; the event
\* loop resumes a receive that is ready to run.  The application is not
\* obliged to call receive, nor the peer to close anything.
RecvFairness ==
    /\ WF_vars(RcvMessage)
    /\ WF_vars(RcvTimer)
    /\ WF_vars(RcvRestart)
    /\ WF_vars(RcvLoop)
    /\ WF_vars(RcvTake)
    /\ WF_vars(RcvDrain)

FairRecvSpec == RecvSpec /\ RecvFairness

\* C12: grants do not wait for the consumer: a receiver whose link is up and
\* whose remaining credit has reached 0 is eventually granted new credit,
\* whether or not the consumer has called receive.
C12_CreditEventuallyGranted ==
    (rcv.link # None /\ rcvHandler.link = "open" /\ rcv.credit <= 0)
        ~> (rcv.credit > 0 \/ rcv.link = None \/ rcvHandler.link # "open")

\* a sequence of offsets in arrival order, none twice
Ascending(q) == \A i \in 1..(Len(q) - 1) : q[i] < q[i + 1]

\* a sequence of offsets with no event of the partition missing in between
Contiguous(q) == \A i \in 1..(Len(q) - 1) : q[i + 1] = q[i] + 1

\* C13: a receive(count) call returns at most count events; the events the
\* receive calls return come out of the buffer in arrival order, none twice,
\* and flow control removes none: every event on_message deposited has been
\* returned by receive, is still buffered, or was discarded by on_stop.
C13_ReceiveInArrivalOrder ==
    /\ Len(rcvCall.batch) <= rcvCount
    /\ (rcvPc = "idle" /\ rcvResult.kind = "batch")
            => Len(rcvResult.batch) <= rcvCount /\ Ascending(rcvResult.batch)
    /\ Ascending(rcvCall.batch)
    /\ rcvCall.batch # <<>>
            => rcvCall.batch[Len(rcvCall.batch)] = rcvGhost.lastTaken
    /\ Contiguous(rcv.messages)
    /\ rcv.messages # <<>>
            => /\ Head(rcv.messages) > rcvGhost.lastTaken
               /\ rcv.messages[Len(rcv.messages)] = rcv.offset
    /\ rcvGhost.takenAll + rcvGhost.dropped + Len(rcv.messages) = rcv.offset

C13_Witness ==
    /\ rcvPc = "idle"
    /\ rcvResult.kind = "batch"
    /\ Len(rcvResult.batch) = 3
    /\ rcvGhost.granted = Watermark
    /\ rcv.messages # <<>>

C15_CloseWakesReceive ==
    (rcvPc = "await" /\ rcv.closed) ~> (rcvPc = "idle")

\* the consumer is inside messages.get() on an empty buffer
ReceiveBlocked ==
    /\ rcvPc = "take"
    /\ rcvCall.size > 0
    /\ Len(rcvCall.batch) < rcvCount
    /\ rcv.messages = <<>>

\* C16: on_message never blocks: whoever holds the receiver's lock is able to
\* go on and release it; no context waits on an empty buffer while it holds
\* the lock on_message needs.
C16_LockHolderNeverBlocks ==
    rcvCall.lock = "consumer" => ~ReceiveBlocked

\* ------------------------------------------------------ EventHubClientAsync

\* the hosts a broker-initiated redirect may name
Hosts == {"h1", "h2"}

\* the error a client's failed start raises, one per client
ErrorOf(i) == <<"e1", "e2", "e3", "e4">>[i]

Links == DOMAIN alinks

\* AsyncSender/AsyncReceiver.close_async(exception): a client that already
\* has an error is left alone; a LinkRedirect is remembered as the redirect
\* target, any other exception as the error; the handler is closed
close_async(c, exception) ==
    IF c.error # None THEN c
    ELSE IF exception \in Hosts
         THEN [c EXCEPT !.redirected = exception, !.state = "closed"]
    ELSE IF exception # None
         THEN [c EXCEPT !.error = exception, !.state = "closed"]
    ELSE [c EXCEPT !.error = "closed", !.state = "closed"]

\* AsyncSender/AsyncReceiver.open_async(connection): the handler is opened on
\* the connection
open_async(c, conn) ==
    [c EXCEPT !.state = "opening", !.conn = conn[1].gen]

\* get_handler_state().value == 2
Opening(c) == c.state = "opening"

\* EventHubClientAsync._create_connection_async
create_connection_async(cl) ==
    IF cl.connection = <<>>
    THEN [cl EXCEPT !.connection = <<[host |-> "h0", gen |-> 1]>>]
    ELSE cl

\* EventHubClientAsync._close_connection_async
close_connection_async(cl) == [cl EXCEPT !.connection = <<>>]

\* EventHubClientAsync._close_clients_async
close_clients_async(ls) == [i \in DOMAIN ls |-> close_async(ls[i], None)]

\* stop_async that forgets to destroy the connection
stop_async_keepConnection(cl) ==
    [cl EXCEPT !.stopped = TRUE]

\* EventHubClientAsync.stop_async, its effect on the client (the clients are
\* closed by close_clients_async)
stop_async(cl) ==
    close_connection_async([cl EXCEPT !.stopped = TRUE])

\* run_async: redirects = [c.redirected for c in self.clients if c.redirected]
redirects(ls) ==
    SelectSeq([i \in DOMAIN ls |-> ls[i].redirected], LAMBDA r : r # None)

\* run_async: failed = [c.error for c in self.clients if c.error]
failed(ls) ==
    SelectSeq([i \in DOMAIN ls |-> ls[i].error], LAMBDA e : e # None)

\* a test that raises as soon as any client failed
AllFailed_any(ls) == failed(ls) # <<>>

\* run_async: `failed and len(failed) == len(self.clients)`
AllFailed(ls) == failed(ls) # <<>> /\ Len(failed(ls)) = Len(ls)

\* _handle_redirect: all(r.hostname == redirects[0].hostname for r in redirects)
SameHost(rs) == \A k \in DOMAIN rs : rs[k] = rs[1]

\* the except clauses of run_async: stop_async, then the error is raised
Raise(ls, error) ==
    /\ aclient' = stop_async(aclient)
    /\ alinks' = close_clients_async(ls)
    /\ runPc' = "raised"
    /\ runResult' = [kind |-> error, failed |-> <<>>]

\* run_async returns `failed`, the list it built before any redirect
Return(ls, result) ==
    /\ alinks' = ls
    /\ runPc' = "returned"
    /\ runResult' = [kind |-> "returned", failed |-> result]

\* _handle_redirect from the comparison of the hosts on: the hard error, or
\* the new authentication, connection.redirect_async and open_async for
\* every client, either of which may raise
Redirect(ls, result) ==
    LET rs == redirects(ls)
    IN  IF ~SameHost(rs)
        THEN Raise(ls, "redirectConflict")
        ELSE \/ /\ aclient' = [aclient EXCEPT
                        !.auth = rs[1],
                        !.connection = <<[host |-> rs[1],
                                          gen |-> aclient.connection[1].gen + 1]>>]
                /\ alinks' = [i \in DOMAIN ls |-> open_async(ls[i], aclient'.connection)]
                /\ runPc' = "returned"
                /\ runResult' = [kind |-> "returned", failed |-> result]
             \/ Raise(ls, "redirectFailed")

\* run_async is called: the connection is created and a start task is made
\* for every client
RunAsync ==
    /\ runPc = "idle"
    /\ aclient' = create_connection_async(aclient)
    /\ runPc' = "gather"
    /\ UNCHANGED <<alinks, runResult>>
    /\ UNCHANGED <<sendVars, recvVars, pumpVars, offVars, lifeVars>>

\* _start_client_async(client): open_async
StartOpen(i) ==
    /\ runPc = "gather"
    /\ alinks[i].task = "new"
    /\ alinks' = [alinks EXCEPT ![i] = [open_async(@, aclient.connection)
                                            EXCEPT !.task = "starting"]]
    /\ UNCHANGED <<aclient, runPc, runResult>>
    /\ UNCHANGED <<sendVars, recvVars, pumpVars, offVars, lifeVars>>

\* _start_client_async(client): has_started answers True, with the handler
\* open or still opening
StartStarted(i) ==
    /\ runPc = "gather"
    /\ alinks[i].task = "starting"
    /\ \E st \in {"opening", "open"} :
        alinks' = [alinks EXCEPT ![i].task = "done", ![i].state = st]
    /\ UNCHANGED <<aclient, runPc, runResult>>
    /\ UNCHANGED <<sendVars, recvVars, pumpVars, offVars, lifeVars>>

\* _start_client_async(client): has_started or work_async raises an error or
\* a LinkRedirect, and the client is closed with it
StartRaises(i) ==
    /\ runPc = "gather"
    /\ alinks[i].task = "starting"
    /\ \E exception \in {ErrorOf(i)} \cup Hosts :
        alinks' = [alinks EXCEPT ![i] =
            [close_async(@, exception) EXCEPT
                !.task = "done",
                !.startError = IF exception \in Hosts THEN None ELSE exception]]
    /\ UNCHANGED <<aclient, runPc, runResult>>
    /\ UNCHANGED <<sendVars, recvVars, pumpVars, offVars, lifeVars>>

\* run_async once asyncio.gather(*tasks) is over
RunEvaluate ==
    /\ runPc = "gather"
    /\ \A i \in Links : alinks[i].task = "done"
    /\ IF AllFailed(alinks)
       THEN Raise(alinks, failed(alinks)[1])
       ELSE IF failed(alinks) # <<>>
       THEN Return(alinks, failed(alinks)) /\ UNCHANGED aclient
       ELSE IF redirects(alinks) # <<>>
       THEN IF Len(redirects(alinks)) # Len(alinks)
            THEN /\ runPc' = "wait"
                 /\ UNCHANGED <<aclient, alinks, runResult>>
            ELSE Redirect(alinks, failed(alinks))
       ELSE Return(alinks, failed(alinks)) /\ UNCHANGED aclient
    /\ UNCHANGED <<sendVars, recvVars, pumpVars, offVars, lifeVars>>

\* _wait_for_client(client) for a client that was not redirected: one
\* work_async while its handler is opening; the handler opens, or an
\* exception closes the client
WaitWork(i) ==
    /\ runPc = "wait"
    /\ alinks[i].redirected = None
    /\ Opening(alinks[i])
    /\ \/ alinks' = [alinks EXCEPT ![i].state = "open"]
       \/ \E exception \in {ErrorOf(i)} \cup Hosts :
            alinks' = [alinks EXCEPT ![i] = close_async(@, exception)]
    /\ UNCHANGED <<aclient, runPc, runResult>>
    /\ UNCHANGED <<sendVars, recvVars, pumpVars, offVars, lifeVars>>

\* _handle_redirect: asyncio.wait(..., timeout=5) returns with a wait still
\* pending
WaitTimeout ==
    /\ runPc = "wait"
    /\ \E i \in Links : alinks[i].redirected = None /\ Opening(alinks[i])
    /\ Raise(alinks, "redirectTimeout")
    /\ UNCHANGED <<sendVars, recvVars, pumpVars, offVars, lifeVars>>

\* _handle_redirect: every wait is over in time
WaitDone ==
    /\ runPc = "wait"
    /\ \A i \in Links : alinks[i].redirected = None => ~Opening(alinks[i])
    /\ Redirect(alinks, <<>>)
    /\ UNCHANGED <<sendVars, recvVars, pumpVars, offVars, lifeVars>>

\* the application calls stop_async after run_async has returned
StopAsync ==
    /\ runPc = "returned"
    /\ aclient' = stop_async(aclient)
    /\ alinks' = close_clients_async(alinks)
    /\ runPc' = "stopped"
    /\ UNCHANGED runResult
    /\ UNCHANGED <<sendVars, recvVars, pumpVars, offVars, lifeVars>>

MaxClients == 3

RunInit ==
    /\ SendInit
    /\ RecvInitWith(DefaultPrefetch)
    /\ PumpInitial /\ OffsetInitial /\ LifeInitial
    /\ \E n \in 1..MaxClients : RunInitWith(n)

RunNext ==
    \/ RunAsync
    \/ \E i \in Links : StartOpen(i)
    \/ \E i \in Links : StartStarted(i)
    \/ \E i \in Links : StartRaises(i)
    \/ RunEvaluate
    \/ \E i \in Links : WaitWork(i)
    \/ WaitTimeout
    \/ WaitDone
    \/ StopAsync

RunSpec == RunInit /\ [][RunNext]_vars

\* run_async is over: it returned or raised (and stop_async may have followed)
RunEnded == runPc \in {"returned", "raised", "stopped"}

\* the clients whose start failed with an error
StartFailed == {i \in Links : alinks[i].startError # None}

\* the errors of the clients whose start failed, in the order of the clients
StartErrors ==
    SelectSeq([i \in Links |-> alinks[i].startError], LAMBDA e : e # None)

\* C17: if every one of the N >= 1 registered links failed to start, run
\* raises, and when the exception leaves run the client is marked stopped,
\* every link is closed and the connection is released.
C17_AllFailedTearsDown ==
    (RunEnded /\ StartFailed = Links)
        => /\ runPc = "raised"
           /\ runResult.kind = alinks[1].startError
           /\ aclient.stopped
           /\ aclient.connection = <<>>
           /\ \A i \in Links : alinks[i].state = "closed"

C17_Witness ==
    /\ runPc = "raised"
    /\ Len(alinks) = 3
    /\ StartFailed = Links

RedirectConflict ==
    \E i, j \in Links :
        /\ alinks[i].redirected # None
        /\ alinks[j].redirected # None
        /\ alinks[i].redirected # alinks[j].redirected

\* C19: if the redirect targets reported by the links disagree, run fails
\* with a hard error: the error is raised out of run, the client is stopped,
\* and neither the connection was redirected nor any link re-opened.
C19_RedirectConflictFails ==
    (RunEnded /\ RedirectConflict)
        => /\ runPc = "raised"
           /\ aclient.stopped
           /\ aclient.auth = "h0"
           /\ \A i \in Links : alinks[i].conn <= 1

\* C20: if a link signalled a redirect during run and run returns normally,
\* the authentication was renegotiated against the redirect target, the
\* connection redirected and every registered link re-opened on the new
\* connection, and this was done only once no link that was not redirected
\* was still opening.
C20_RedirectReopensEveryLink ==
    [][(runPc # "returned" /\ runPc' = "returned"
            /\ \E i \in Links : alinks'[i].redirected # None)
        => /\ \E i \in Links : aclient'.auth = alinks'[i].redirected
           /\ aclient'.connection # <<>>
           /\ aclient'.connection[1].host = aclient'.auth
           /\ aclient'.connection[1].gen = aclient.connection[1].gen + 1
           /\ \A i \in Links :
                /\ alinks'[i].conn = aclient'.connection[1].gen
                /\ alinks'[i].state = "opening"
           /\ \A i \in Links :
                alinks[i].redirected = None => ~Opening(alinks[i])]_vars

\* ======================================================================
\* EventHubPartitionPump, PartitionReceiveHandler and PartitionReceiver
\* ======================================================================

\* attempts of open_clients_async that on_open_async makes
OpenRetries == 5
\* events the broker delivers to the pump's client, and faults reported
\* through PartitionReceiver.process_error_async
MaxPumpMessages == 3
MaxFaults == 1

\* the points of open_clients_async where an attempt can raise: the lease
\* store's get_initial_offset_async, or the construction of the client
OpenFailures == {"none", "offset", "client"}

OpenError(k) == <<"open", k>>
FaultError(k) == <<"fault", k>>

set_pump_status(p, status) == [p EXCEPT !.pump_status = status]

is_closing(p) == p.pump_status = "Closing" \/ p.pump_status = "Closed"

\* one call of open_clients_async that raises at `fail`, or returns
open_clients_async(p, fail) ==
    IF fail = "offset" THEN p
    ELSE IF fail = "client"
    THEN [p EXCEPT !.msg_queue = "Queue",
                   !.partition_receive_handler = "PartitionReceiveHandler"]
    ELSE [p EXCEPT !.msg_queue = "Queue",
                   !.partition_receive_handler = "PartitionReceiveHandler",
                   !.eh_client = "EventHubClient",
                   !.partition_receiver = "PartitionReceiver"]

\* clean_up_clients_async stops the client only under both guards
CleanUpStops(p) == p.partition_receiver # None /\ p.eh_client # None

clean_up_clients_async(p) ==
    IF CleanUpStops(p)
    THEN [p EXCEPT !.partition_receiver = None,
                   !.partition_receive_handler = None,
                   !.eh_client = None,
                   !.msg_queue = None]
    ELSE p

\* EventHubClient.stop() as the pump sees it
client_stop(c) == [c EXCEPT !.state = "stopped", !.stops = @ + 1]

\* the loop condition of on_open_async
KeepTrying_first(o) == (~o.opened_ok) /\ (o.retry_count < 1)
KeepTrying(o) == (~o.opened_ok) /\ (o.retry_count < OpenRetries)

\* the loop condition of PartitionReceiver.run
LoopContinues(p) == (~is_closing(p)) \/ p.pump_status = "Errored"

\* the condition under which on_event_data takes the event
Admits(p) == (~(p.pump_status = "Errored")) \/ p.pump_status = "IsClosing"

\* PartitionPump.open_async: the host opens the pump
OpenAsync ==
    /\ opn.pc = "idle"
    /\ pump.pump_status = "Uninitialized"
    /\ pump' = set_pump_status(pump, "Opening")
    /\ opn' = [opn EXCEPT !.pc = "loop"]
    /\ UNCHANGED <<queue, pclient, closePc, pghost>>
    /\ UNCHANGED <<sendVars, recvVars, runVars, offVars, lifeVars>>

\* one iteration of the retry loop of on_open_async
OpenAttempt(fail) ==
    /\ opn.pc = "loop"
    /\ KeepTrying(opn)
    /\ pump' = open_clients_async(pump, fail)
    /\ opn' = IF fail = "none"
              THEN [opn EXCEPT !.opened_ok = TRUE]
              ELSE [opn EXCEPT !.last_exception = OpenError(pghost.attempts + 1),
                               !.retry_count = @ + 1]
    /\ pghost' = [pghost EXCEPT !.attempts = @ + 1]
    /\ UNCHANGED <<queue, pclient, closePc>>
    /\ UNCHANGED <<sendVars, recvVars, runVars, offVars, lifeVars>>

\* the loop is left: after the last failure the error goes to the processor
OpenLoopExit ==
    /\ opn.pc = "loop"
    /\ ~KeepTrying(opn)
    /\ IF ~opn.opened_ok
       THEN /\ pghost' = [pghost EXCEPT
                            !.reported = Append(@, opn.last_exception)]
            /\ pump' = set_pump_status(pump, "OpenFailed")
       ELSE UNCHANGED <<pghost, pump>>
    /\ opn' = [opn EXCEPT !.pc = "opened"]
    /\ UNCHANGED <<queue, pclient, closePc>>
    /\ UNCHANGED <<sendVars, recvVars, runVars, offVars, lifeVars>>

\* `if self.pump_status == "Opening"`: the client's thread is started and
\* the pump's thread enters PartitionReceiver.run
OpenRunning ==
    /\ opn.pc = "opened"
    /\ IF pump.pump_status = "Opening"
       THEN /\ pump' = set_pump_status(pump, "Running")
            /\ pclient' = [pclient EXCEPT !.state = "running"]
            /\ opn' = [opn EXCEPT !.pc = "run"]
       ELSE /\ opn' = [opn EXCEPT !.pc = "returned"]
            /\ UNCHANGED <<pump, pclient>>
    /\ UNCHANGED <<queue, closePc, pghost>>
    /\ UNCHANGED <<sendVars, recvVars, runVars, offVars, lifeVars>>

\* `if self.pump_status == "OpenFailed"`
OpenFailedClosing ==
    /\ opn.pc = "returned"
    /\ IF pump.pump_status = "OpenFailed"
       THEN /\ pump' = set_pump_status(pump, "Closing")
            /\ opn' = [opn EXCEPT !.pc = "cleanup"]
       ELSE /\ opn' = [opn EXCEPT !.pc = "done"]
            /\ UNCHANGED pump
    /\ UNCHANGED <<queue, pclient, closePc, pghost>>
    /\ UNCHANGED <<sendVars, recvVars, runVars, offVars, lifeVars>>

OpenFailedClosed ==
    /\ opn.pc = "cleanup"
    /\ pclient' = IF CleanUpStops(pump) THEN client_stop(pclient) ELSE pclient
    /\ pump' = set_pump_status(clean_up_clients_async(pump), "Closed")
    /\ opn' = [opn EXCEPT !.pc = "done"]
    /\ UNCHANGED <<queue, closePc, pghost>>
    /\ UNCHANGED <<sendVars, recvVars, runVars, offVars, lifeVars>>

\* PartitionReceiver.run: the loop test and the test of msg_queue
RunLoop ==
    /\ opn.pc = "run"
    /\ IF LoopContinues(pump)
       THEN IF pump.msg_queue # None
            THEN /\ opn' = [opn EXCEPT !.pc = "get"]
                 /\ UNCHANGED pghost
            ELSE /\ pghost' = [pghost EXCEPT !.spun = TRUE]
                 /\ UNCHANGED opn
       ELSE /\ opn' = [opn EXCEPT !.pc = "returned"]
            /\ UNCHANGED pghost
    /\ UNCHANGED <<pump, queue, pclient, closePc>>
    /\ UNCHANGED <<sendVars, recvVars, runVars, offVars, lifeVars>>

\* msg_queue.get() returns once the Queue object holds an event
RunGet ==
    /\ opn.pc = "get"
    /\ queue # <<>>
    /\ opn' = [opn EXCEPT !.pc = "process", !.msg = <<Head(queue)>>]
    /\ queue' = Tail(queue)
    /\ UNCHANGED <<pump, pclient, closePc, pghost>>
    /\ UNCHANGED <<sendVars, recvVars, runVars, offVars, lifeVars>>

\* process_events_async([msg]) hands the event to the processor
RunProcess ==
    /\ opn.pc = "process"
    /\ pghost' = [pghost EXCEPT !.processed = @ \o opn.msg]
    /\ opn' = [opn EXCEPT !.pc = "run", !.msg = <<>>]
    /\ UNCHANGED <<pump, queue, pclient, closePc>>
    /\ UNCHANGED <<sendVars, recvVars, runVars, offVars, lifeVars>>

\* PartitionReceiveHandler.on_event_data on the client's thread; `bad` is
\* an event whose handling raises
OnEventData(bad) ==
    /\ pclient.state = "running"
    /\ pclient.next <= MaxPumpMessages
    /\ LET m == pclient.next
           arrived == [pclient EXCEPT !.next = @ + 1]
       IN IF Admits(pump)
          THEN IF bad
               THEN /\ pclient' = client_stop(arrived)
                    /\ pghost' = [pghost EXCEPT !.raised = @ + 1]
                    /\ UNCHANGED queue
               ELSE /\ pclient' = arrived
                    /\ IF pump.msg_queue # None
                       THEN /\ queue' = Append(queue, m)
                            /\ pghost' = [pghost EXCEPT
                                            !.admitted = Append(@, m)]
                       ELSE UNCHANGED <<queue, pghost>>
          ELSE /\ pclient' = client_stop(arrived)
               /\ UNCHANGED <<queue, pghost>>
    /\ UNCHANGED <<pump, opn, closePc>>
    /\ UNCHANGED <<sendVars, recvVars, runVars, offVars, lifeVars>>

\* PartitionReceiver.process_error_async: a fault of the receive path
ProcessError ==
    /\ pclient.state = "running"
    /\ pghost.faults < MaxFaults
    /\ pghost' = [pghost EXCEPT
                    !.reported = Append(@, FaultError(pghost.faults + 1)),
                    !.faults = @ + 1,
                    !.faultIn = pump.pump_status,
                    !.atFault = queue,
                    !.admitted = <<>>]
    /\ pump' = set_pump_status(pump, "Errored")
    /\ UNCHANGED <<opn, queue, pclient, closePc>>
    /\ UNCHANGED <<sendVars, recvVars, runVars, offVars, lifeVars>>

\* PartitionPump.close_async, called by the host for a pump that runs or
\* has reported a fault
CloseAsync ==
    /\ closePc = "idle"
    /\ pump.pump_status \in {"Running", "Errored"}
    /\ pump' = set_pump_status(pump, "Closing")
    /\ closePc' = "closing"
    /\ UNCHANGED <<opn, queue, pclient, pghost>>
    /\ UNCHANGED <<sendVars, recvVars, runVars, offVars, lifeVars>>

\* on_closing_async
OnClosing ==
    /\ closePc = "closing"
    /\ pclient' = IF CleanUpStops(pump) THEN client_stop(pclient) ELSE pclient
    /\ pump' = clean_up_clients_async(pump)
    /\ closePc' = "cleaned"
    /\ UNCHANGED <<opn, queue, pghost>>
    /\ UNCHANGED <<sendVars, recvVars, runVars, offVars, lifeVars>>

CloseDone ==
    /\ closePc = "cleaned"
    /\ pump' = set_pump_status(pump, "Closed")
    /\ closePc' = "done"
    /\ UNCHANGED <<opn, queue, pclient, pghost>>
    /\ UNCHANGED <<sendVars, recvVars, runVars, offVars, lifeVars>>

PumpInit ==
    /\ SendInit
    /\ RecvInitWith(DefaultPrefetch)
    /\ RunInitWith(1)
    /\ PumpInitial /\ OffsetInitial /\ LifeInitial

PumpNext ==
    \/ OpenAsync
    \/ \E fail \in OpenFailures : OpenAttempt(fail)
    \/ OpenLoopExit
    \/ OpenRunning
    \/ OpenFailedClosing
    \/ OpenFailedClosed
    \/ RunLoop
    \/ RunGet
    \/ RunProcess
    \/ \E bad \in BOOLEAN : OnEventData(bad)
    \/ ProcessError
    \/ CloseAsync
    \/ OnClosing
    \/ CloseDone

PumpSpec == PumpInit /\ [][PumpNext]_vars

\* ---------------------------------------------------------------------
\* C21: while Opening the pump makes at most 5 attempts of the whole open
\* sequence and stops at the first that succeeds; it becomes OpenFailed
\* exactly when all 5 failed, and then the error of the last attempt, and
\* nothing else, has been reported once to the processor; after a
\* successful attempt nothing is reported and the pump becomes Running.
InRun == opn.pc \in {"run", "get", "process"}

C21_OpenRetriesThenReports ==
    /\ pghost.attempts <= OpenRetries
    /\ pghost.attempts = opn.retry_count + (IF opn.opened_ok THEN 1 ELSE 0)
    /\ opn.pc = "opened" =>
         /\ (pump.pump_status = "OpenFailed")
              <=> (~opn.opened_ok /\ opn.retry_count = OpenRetries)
         /\ pump.pump_status = "OpenFailed"
              => pghost.reported = <<OpenError(OpenRetries)>>
         /\ opn.opened_ok
              => pghost.reported = <<>> /\ pump.pump_status = "Opening"
    /\ pghost.faults = 0 =>
         \/ pghost.reported = <<>>
         \/ /\ pghost.reported = <<OpenError(OpenRetries)>>
            /\ ~opn.opened_ok
    /\ (InRun /\ pghost.faults = 0 /\ closePc = "idle")
         => (opn.opened_ok /\ pump.pump_status = "Running")

C21_Witness ==
    /\ pump.pump_status = "OpenFailed"
    /\ pghost.attempts = OpenRetries
    /\ pghost.reported = <<OpenError(OpenRetries)>>

\* ---------------------------------------------------------------------
\* C22: a pump whose open failed goes through Closing to Closed, and once
\* it is Closed every resource the failed attempts had constructed (the
\* client, the receiver, the receive handler, the intake queue) has been
\* released, whichever step failed, and close_async was not involved.
Released(p) ==
    /\ p.eh_client = None
    /\ p.partition_receiver = None
    /\ p.partition_receive_handler = None
    /\ p.msg_queue = None

C22_OpenFailedReleasesAll ==
    (~opn.opened_ok /\ pump.pump_status = "Closed")
        => (Released(pump) /\ closePc = "idle")

\* ---------------------------------------------------------------------
\* C23: the pump's status changes only along Uninitialized -> Opening,
\* Opening -> Running, Opening -> OpenFailed, Running -> Errored, from
\* OpenFailed, Running or Errored to Closing, and Closing -> Closed; no
\* other change occurs, and Closed is never left.
StatusEdges ==
    {<<"Uninitialized", "Opening">>, <<"Opening", "Running">>,
     <<"Opening", "OpenFailed">>, <<"Running", "Errored">>,
     <<"OpenFailed", "Closing">>, <<"Running", "Closing">>,
     <<"Errored", "Closing">>, <<"Closing", "Closed">>}

C23_StatusEdgesOnly ==
    [][pump.pump_status' # pump.pump_status
        => <<pump.pump_status, pump.pump_status'>> \in StatusEdges]_vars

\* ---------------------------------------------------------------------
\* C24: a fault reported while the pump is Running loses no buffered
\* work: every event that was in the intake queue when the pump became
\* Errored has been handed to process_events by the time the pump is
\* Closed, and no event that arrives after the fault is admitted to the
\* queue.
Handed(q) == \A i \in 1..Len(q) : \E j \in 1..Len(pghost.processed) :
                pghost.processed[j] = q[i]

C24_BufferedBeforeFault ==
    pghost.faultIn = "Running" =>
        (pump.pump_status = "Closed" => Handed(pghost.atFault))

C24_NoneAdmittedAfterFault ==
    pghost.faultIn = "Running" => pghost.admitted = <<>>

C24_FaultLosesNoBufferedWork ==
    C24_BufferedBeforeFault /\ C24_NoneAdmittedAfterFault

\* ---------------------------------------------------------------------
\* C25: the pump's resources are torn down exactly once: the stop of the
\* client is called exactly once for an opened client, counting the calls
\* made by on_closing_async, by the clean-up after a failed open and by
\* the receive handler itself.
C25_ClientStoppedOnce ==
    /\ pclient.stops <= 1
    /\ (opn.opened_ok /\ closePc = "done") => pclient.stops = 1

\* ---------------------------------------------------------------------
\* C26: the consume loop terminates: once the pump has been told to close
\* PartitionReceiver.run returns, also when the intake queue is empty at
\* that moment. Stated through the state that rules it out: the close is
\* complete, the client is stopped so that no event can arrive any more,
\* the queue is empty, and run is still inside its msg_queue.get().
C26_ConsumeLoopReturns ==
    (is_closing(pump) /\ closePc = "done" /\ pclient.state = "stopped"
        /\ queue = <<>>)
      => opn.pc # "get"

\* ---------------------------------------------------------------------
\* C27: the consume loop never spins: every iteration of
\* PartitionReceiver.run takes an event or waits for one; in no reachable
\* state, with the queue empty or already released by the clean-up, has
\* the loop gone round without a get().
C27_ConsumeLoopNeverSpins == ~pghost.spun

\* ---------------------------------------------------------------------
\* C28: every exception raised while an arriving event is handled is
\* passed to the processor's error hook and drives the pump to Errored or
\* Closing; none is silently swallowed.
C28_ReceiveErrorsReported ==
    pghost.raised > 0 =>
        /\ Len(pghost.reported) >= pghost.raised
        /\ pump.pump_status \in {"Errored", "Closing", "Closed"}

\* ======================================================================
\* Offset and Offset.selector
\* ======================================================================

\* timestamps 0..MaxMillis (milliseconds), and datetimes from one second
\* after the epoch on, in steps of a millisecond, with and without a part
\* below the millisecond
MaxMillis == 20
\* significant bits of a Python float (IEEE 754 binary64)
Precision == 53
MicrosPerSecond == 1000000
MillisPerSecond == 1000
SubMillis == {0, 999}

RawOffsets == {"-1", "@latest", "12345"}
Timestamps == 0..MaxMillis
Datetimes == {MicrosPerSecond + MillisPerSecond * k + j :
                k \in 0..MaxMillis, j \in SubMillis}

\* ---- natural numbers as sequences of bits, most significant first
Front(b) == SubSeq(b, 1, Len(b) - 1)
Last(b) == b[Len(b)]

RECURSIVE BitsOf(_)
BitsOf(n) == IF n = 0 THEN <<>> ELSE Append(BitsOf(n \div 2), n % 2)

RECURSIVE ValueOf(_)
ValueOf(b) == IF b = <<>> THEN 0 ELSE 2 * ValueOf(Front(b)) + Last(b)

RECURSIVE Inc(_)
Inc(b) ==
    IF b = <<>> THEN <<1>>
    ELSE IF Last(b) = 0 THEN Append(Front(b), 1)
    ELSE Append(Inc(Front(b)), 0)

\* b * k for at most 3 * Chunk bits b and a small k, by long
\* multiplication on pieces of Chunk bits
Chunk == 18

Pad(b) == [i \in 1..(Chunk - Len(b)) |-> 0] \o b

Piece(b, i) ==
    ValueOf(SubSeq(b, Max(1, Len(b) - (i + 1) * Chunk + 1),
                   Len(b) - i * Chunk))

MulSmall(b, k) ==
    LET t0 == Piece(b, 0) * k
        t1 == Piece(b, 1) * k + t0 \div 2^Chunk
        t2 == Piece(b, 2) * k + t1 \div 2^Chunk
    IN BitsOf(t2) \o Pad(BitsOf(t1 % 2^Chunk)) \o Pad(BitsOf(t0 % 2^Chunk))

\* ---- floats: [m, f] stands for ValueOf(m) / 2^f
\* n / d correctly rounded, as int / int is in Python: long division until
\* Precision significant bits are there, then round to nearest, ties to even
RECURSIVE Quotient(_, _, _, _)
Quotient(m, r, f, d) ==
    IF r = 0 THEN [m |-> m, f |-> f]
    ELSE IF Len(m) = Precision
    THEN [m |-> IF 2 * r > d \/ (2 * r = d /\ Last(m) = 1)
                THEN Inc(m) ELSE m,
          f |-> f]
    ELSE LET bit == IF 2 * r >= d THEN 1 ELSE 0
         IN Quotient(IF m = <<>> /\ bit = 0 THEN <<>> ELSE Append(m, bit),
                     2 * r - bit * d, f + 1, d)

TrueDiv(n, d) == Quotient(BitsOf(n \div d), n % d, 0, d)

\* a sequence of bits rounded to Precision significant bits
RoundBits(b) ==
    IF Len(b) <= Precision THEN [m |-> b, dropped |-> 0]
    ELSE LET kept == SubSeq(b, 1, Precision)
             rest == SubSeq(b, Precision + 1, Len(b))
             more == \E i \in 2..Len(rest) : rest[i] = 1
             up == rest[1] = 1 /\ (more \/ Last(kept) = 1)
         IN [m |-> IF up THEN Inc(kept) ELSE kept, dropped |-> Len(rest)]

\* x * k for a float x and a small whole number k
FloatTimes(x, k) ==
    LET p == RoundBits(MulSmall(x.m, k))
    IN IF p.dropped <= x.f
       THEN [m |-> p.m, f |-> x.f - p.dropped]
       ELSE [m |-> p.m \o [i \in 1..(p.dropped - x.f) |-> 0], f |-> 0]

\* int(x), which is what timestamp(x) keeps of a float
Truncate(x) ==
    IF x.f >= Len(x.m) THEN 0
    ELSE ValueOf(SubSeq(x.m, 1, Len(x.m) - x.f))

\* ---- strings: fixed texts are single elements, numbers are digits
Digit(d) == <<"0", "1", "2", "3", "4", "5", "6", "7", "8", "9">>[d + 1]

RECURSIVE str(_)
str(n) == IF n < 10 THEN <<Digit(n)>> ELSE Append(str(n \div 10), Digit(n % 10))

\* (self.value - epoch).total_seconds() * 1000.0 for a datetime that is
\* `micros` microseconds after the epoch
milli_seconds(micros) ==
    Truncate(FloatTimes(TrueDiv(micros, MicrosPerSecond), MillisPerSecond))

selector(o) ==
    IF o.kind = "datetime"
    THEN <<"amqp.annotation.x-opt-enqueued-time > '">>
            \o str(milli_seconds(o.value)) \o <<"'">>
    ELSE IF o.kind = "timestamp"
    THEN <<"amqp.annotation.x-opt-enqueued-time > '">>
            \o str(o.value) \o <<"'">>
    ELSE LET operator == IF o.inclusive THEN ">=" ELSE ">"
         IN <<"amqp.annotation.x-opt-offset ", operator, " '", o.value, "'">>

\* Offset(value, inclusive), for a value of the given kind
NewOffset(kind, value, inclusive) ==
    /\ offset' = [kind |-> kind, value |-> value, inclusive |-> inclusive]
    /\ selected' = <<>>
    /\ UNCHANGED <<sendVars, recvVars, runVars, pumpVars, lifeVars>>

\* offset.selector()
Selector ==
    /\ selected = <<>>
    /\ selected' = <<selector(offset)>>
    /\ UNCHANGED offset
    /\ UNCHANGED <<sendVars, recvVars, runVars, pumpVars, lifeVars>>

OffsetInit ==
    /\ SendInit
    /\ RecvInitWith(DefaultPrefetch)
    /\ RunInitWith(1)
    /\ PumpInitial /\ OffsetInitial /\ LifeInitial

OffsetNext ==
    \/ \E v \in RawOffsets, i \in BOOLEAN : NewOffset("offset", v, i)
    \/ \E v \in Timestamps, i \in BOOLEAN : NewOffset("timestamp", v, i)
    \/ \E v \in Datetimes, i \in BOOLEAN : NewOffset("datetime", v, i)
    \/ Selector

OffsetSpec == OffsetInit /\ [][OffsetNext]_vars

\* ---------------------------------------------------------------------
\* C29: Offset.selector produces the filter expression exactly: for a raw
\* offset s it is amqp.annotation.x-opt-offset >= 's' when inclusive and
\* amqp.annotation.x-opt-offset > 's' when not; for a position in time it
\* is amqp.annotation.x-opt-enqueued-time > '<epoch-millis>' whatever the
\* inclusive flag, <epoch-millis> being the whole milliseconds between
\* the epoch and the position.
EpochMillis(o) ==
    IF o.kind = "datetime"
    THEN (o.value * MillisPerSecond) \div MicrosPerSecond
    ELSE o.value

FilterExpression(o) ==
    IF o.kind = "offset"
    THEN <<"amqp.annotation.x-opt-offset ",
           IF o.inclusive THEN ">=" ELSE ">", " '", o.value, "'">>
    ELSE <<"amqp.annotation.x-opt-enqueued-time > '">>
            \o str(EpochMillis(o)) \o <<"'">>

C29_SelectorExact ==
    selected # <<>> => selected[1] = FilterExpression(offset)

\* ======================================================================
\* ClientHandler: a link closed by the peer
\* ======================================================================

\* ClientHandler._get_link_name: the handler's own name and its iteration
get_link_name(h) == <<h, handlers[h].iteration>>

\* the reactor runs a task that on_link_remote_close scheduled for h
TimerFires(h) == handlers'[h].timers < handlers[h].timers

LinkEstablished(h) == handlers[h].link # "open" /\ handlers'[h].link = "open"

FatalClose(h) == handlers[h].link = "open" /\ handlers'[h].link = "closed"

\* a fatal close tears the connection down, schedules nothing, and the
\* link is never established again
FatalTearsDown(h) ==
    /\ FatalClose(h) =>
         connection' = "closed" /\ handlers'[h].timers = handlers[h].timers
    /\ handlers[h].link = "closed" =>
         /\ handlers'[h].link # "open"
         /\ get_link_name(h)' = get_link_name(h)

\* every establishment of the link takes a name with a larger iteration,
\* and the iteration changes at no other time
FreshLinkName(h) ==
    /\ LinkEstablished(h) => handlers'[h].iteration > handlers[h].iteration
    /\ handlers'[h].iteration >= handlers[h].iteration

TimerWhileOutstanding ==
    \A h \in Handlers : handlers[h].deliveries # {} => handlers[h].task # <<>>

NoTimerWhenDrained ==
    \A h \in Handlers : handlers[h].deliveries = {} => handlers[h].task = <<>>

C31_TimerOnlyWhileOutstanding == TimerWhileOutstanding /\ NoTimerWhenDrained

\* ---------------------------------------------------------------------
\* C32: the receiver's buffer, credit counter, delivered counter and
\* waiter are guarded by one lock: while a receive call holds the lock no
\* other context changes any of them.
Guarded(r) == <<r.messages, r.credit, r.delivered, r.waiter>>

C32_GuardedByLock ==
    [][(rcvCall.lock = "consumer" /\ Guarded(rcv') # Guarded(rcv))
        => rcvCall' # rcvCall]_vars

\* ---------------------------------------------------------------------
\* C33: sends are bounded by the credit the broker granted and are never
\* retried: messages are handed to the link only while the link exists
\* and only as many as it has credit for; they are handed over in
\* the order send was called; and a message is handed to a link at most
\* once, whatever closures and restarts follow (a released or timed-out
\* message never returns to the queue).
HandedOver(h) == handlers'[h].deliveries \ handlers[h].deliveries

Queued(h) == Range(handlers[h].queue)

C33_CreditBoundedFifoOnce ==
    [][\A h \in Handlers :
        /\ handlers'[h].credit >= 0
        /\ HandedOver(h) # {} =>
             /\ handlers[h].link = "open"
             /\ handlers'[h].credit + Cardinality(HandedOver(h))
                    <= handlers[h].credit + 1
             /\ handlers[h].queue =
                    SubSeq(handlers[h].queue, 1, Cardinality(HandedOver(h)))
                        \o handlers'[h].queue
             /\ HandedOver(h) = Queued(h) \ Queued(h)'
             /\ \A r \in HandedOver(h) : ~events[r].handed
        /\ Ascending(handlers'[h].queue)
        /\ \A r \in Queued(h)' \ Queued(h) : r \notin DOMAIN events]_vars

\* ---------------------------------------------- reconnect after a close
\* The client's own handlers for the close of the session, the connection
\* and the transport, and the task they schedule.  A connection the client
\* holds no more (None) cannot be the event's; one it closed itself
\* ("closed") is is_local_closed.

MaxPeerCloses == 2

\* EventHubClient._close_clients: the handlers after client.stop(condition)
close_clients(hs) ==
    [h \in Handlers |-> IF h \in DOMAIN clients THEN stop(hs[h]) ELSE hs[h]]

\* EventHubClient.on_reactor_init: connect unless a connection is held,
\* then client.start() for every client
on_reactor_init(conn, hs) ==
    [connection |-> IF conn = None THEN "open" ELSE conn,
     handlers |-> [h \in Handlers |->
                      IF h \in DOMAIN clients THEN start(hs[h]) ELSE hs[h]]]

\* EventHubClient.on_timer_task that restarts whatever the client's state
MayRestart_always == TRUE

\* EventHubClient.on_timer_task: `if not self.stopped`
MayRestart == ~stopped

\* the deliveries the stopped handlers complete as RELEASED
Completes(condition) ==
    LET done == UNION {handlers[h].deliveries : h \in DOMAIN clients}
    IN  /\ events' = CompleteAll(events, done, RELEASED, condition)
        /\ SetSender(SenderAfter(events, done, RELEASED, condition))

\* the handlers that hold a link
Holding(hs) == {h \in DOMAIN clients : hs[h].link # None}

\* bookkeeping of one callback of the client: held is the handlers that
\* held a link when the callback, having stopped them, started them again
Heard(close, held) ==
    lifeGhost' = [closes |-> lifeGhost.closes + (IF close THEN 1 ELSE 0),
                  afterStop |-> lifeGhost.afterStop + (IF stopped THEN 1 ELSE 0),
                  held |-> held]

\* EventHubClient.on_connection_remote_close
on_connection_remote_close(condition) ==
    /\ reactor = "running"
    /\ lifeGhost.closes < MaxPeerCloses
    /\ Heard(TRUE, {})
    /\ IF stopped \/ connection # "open"
       THEN UNCHANGED <<handlers, events, senderVars, connection, clientTimers>>
       ELSE /\ handlers' = close_clients(handlers)
            /\ Completes(condition)
            /\ connection' = None
            /\ clientTimers' = clientTimers + 1
    /\ UNCHANGED <<stopped, clients, daemon, reactor, stopEvent, triggered,
                   s_handler, callerVars, ghostVars>>
    /\ UNCHANGED <<recvVars, runVars, pumpVars, offVars>>

\* EventHubClient.on_session_remote_close: the session of a connection the
\* client released or closed is closed locally
on_session_remote_close(condition) ==
    /\ reactor = "running"
    /\ lifeGhost.closes < MaxPeerCloses
    /\ Heard(TRUE, {})
    /\ IF connection # "open"
       THEN UNCHANGED <<handlers, events, senderVars, clientTimers>>
       ELSE /\ handlers' = close_clients(handlers)
            /\ Completes(condition)
            /\ clientTimers' = clientTimers + 1
    /\ UNCHANGED <<clientVars, triggered, s_handler, callerVars, ghostVars>>
    /\ UNCHANGED <<recvVars, runVars, pumpVars, offVars>>

\* EventHubClient.on_transport_closed
on_transport_closed(condition) ==
    LET again == on_reactor_init(None, close_clients(handlers))
    IN  /\ reactor = "running"
        /\ lifeGhost.closes < MaxPeerCloses
        /\ Heard(TRUE, IF connection # "open" THEN {}
                        ELSE Holding(close_clients(handlers)))
        /\ IF connection # "open"
           THEN UNCHANGED <<handlers, events, senderVars, connection>>
           ELSE /\ handlers' = again.handlers
                /\ Completes(condition)
                /\ connection' = again.connection
        /\ UNCHANGED <<stopped, clients, daemon, reactor, stopEvent, triggered,
                       s_handler, callerVars, ghostVars, clientTimers>>
        /\ UNCHANGED <<recvVars, runVars, pumpVars, offVars>>

\* EventHubClient.on_timer_task
client_on_timer_task ==
    LET again == on_reactor_init(connection, handlers)
    IN  /\ reactor = "running"
        /\ clientTimers > 0
        /\ clientTimers' = clientTimers - 1
        /\ Heard(FALSE, {})
        /\ IF MayRestart
           THEN /\ handlers' = again.handlers
                /\ connection' = again.connection
           ELSE UNCHANGED <<handlers, connection>>
        /\ UNCHANGED <<stopped, clients, daemon, reactor, stopEvent, triggered,
                       events, s_handler, senderVars, callerVars, ghostVars>>
        /\ UNCHANGED <<recvVars, runVars, pumpVars, offVars>>

LifeNext ==
    \/ Publish
    \/ Subscribe
    \/ Run
    \/ Stop
    \/ OnStopClient
    \/ \E h \in Handlers, c \in RemoteConditions : on_link_remote_close(h, c)
    \/ \E h \in Handlers : on_timer_task(h)
    \/ \E c \in RemoteConditions : on_connection_remote_close(c)
    \/ \E c \in RemoteConditions : on_session_remote_close(c)
    \/ \E c \in RemoteConditions : on_transport_closed(c)
    \/ client_on_timer_task

LifeSpec == Init /\ [][LifeNext]_vars

Started(h) == handlers'[h].iteration # handlers[h].iteration

\* C35: under any sequence of close events of links, the session, the
\* connection and the transport, and of the tasks they schedule, a step
\* starts a handler's link only if the client then holds an open
\* connection and the handler holds no link when start() is called: it
\* held none before the step, or the step is a close event whose callback
\* stopped the handler before it started it again.
C35_StartOnlyWithoutLinkOnOpenConnection ==
    [][\A h \in Handlers : Started(h) =>
          /\ connection' = "open"
          /\ \/ handlers[h].link = None
             \/ /\ lifeGhost'.closes # lifeGhost.closes
                /\ h \notin lifeGhost'.held
      ]_vars

\* C35, first half: no handler is started while it still holds a link
C35_NoSecondLink ==
    [][\A h \in Handlers : Started(h) =>
          \/ handlers[h].link = None
          \/ /\ lifeGhost'.closes # lifeGhost.closes
             /\ h \notin lifeGhost'.held
      ]_vars

\* C35, second half: no handler is started on a released connection
C35_NoLinkOnReleasedConnection ==
    [][\A h \in Handlers : Started(h) => connection' # None]_vars

\* C36: across restarts of the link the receiver hands every event of the
\* partition to the application exactly once and in order: the events the
\* receive calls have returned so far are the events 1, 2, ... up to the last
\* one returned, none left out and none twice, and a batch is ascending.
\* (An event that was buffered when the link stopped has to arrive again.)
C36_EachEventOnceInOrder ==
    /\ rcvGhost.lastTaken = rcvGhost.takenAll
    /\ Ascending(rcvCall.batch)
    /\ rcvCall.batch # <<>> => rcvCall.batch[Len(rcvCall.batch)] = rcvGhost.lastTaken

\* the receiver is between a link start and the next stop
Linked == rcv.link # None /\ rcvHandler.link = "open" /\ rcvReactor.pc = "none"

\* C38: for an AsyncReceiver, in every state between a link start and the
\* next stop, remaining credit + count consumed by receive since the last
\* grant + number of buffered events equals the prefetch, under any
\* interleaving of on_message, receive, flow grants and link restarts.
C38_SumIsPrefetch ==
    Linked => rcv.credit + rcv.delivered + Len(rcv.messages) = rcv.prefetch

\* what C38 concludes from the sum: the buffer holds at most prefetch
\* events and the credit counter is not negative
BufferAndCreditBounded ==
    Linked => Len(rcv.messages) <= rcv.prefetch /\ rcv.credit >= 0

\* ------------------------------------------- two threads on one Sender
\* The threads of Callers call Sender.send on the same Sender while the
\* reactor hands the messages to the link and the broker settles them.
DuoNext ==
    \/ Publish
    \/ Run
    \/ \E t \in Callers : Send(t)
    \/ \E t \in Callers : SendReturn(t)
    \/ \E h \in Handlers : OnSend(h)
    \/ \E h \in Handlers : Flow(h)
    \/ \E h \in Handlers, r \in DOMAIN events, o \in {ACCEPTED, REJECTED} :
            on_delivery(h, r, o)

DuoSpec == Init /\ [][DuoNext]_vars

\* the step in which thread t comes back from Sender.send
Returns(t) == callerPc[t] = "waiting" /\ callerPc'[t] = "idle"

\* C37: when two threads call Sender.send on the same Sender concurrently,
\* each call returns only after its own delivery was completed, and reports
\* that delivery's outcome: it returns normally exactly when its own
\* delivery was ACCEPTED, whatever happened to the other thread's delivery.
C37_OwnDeliveryOwnOutcome ==
    [][\A t \in Callers : Returns(t) =>
          /\ events[callerRec[t]].completions >= 1
          /\ lastResult'[t] = "ok" <=> events[callerRec[t]].outcome = ACCEPTED
      ]_vars

====
